---- MODULE Spec2Model ----
(***************************************************************************)
(* Model of the signal evaluation and backtesting engine of                *)
(* angeloange/stock_analysis (src/backtest.py, src/evaluation.py).         *)
(*                                                                         *)
(* Bars are numbered as in the source: the Python index i of a bar is the  *)
(* TLA+ sequence index i + 1.  Dates are the bar indices (the index of the *)
(* table is strictly increasing), so a difference of dates is a            *)
(* difference of indices.  Prices and capital are integers and             *)
(* position_size is the fraction PosNum / PosDen, so that every product    *)
(* and floor is exact; ratios are kept as records [num, den].              *)
(***************************************************************************)
EXTENDS Integers, Sequences, FiniteSets, TLC

VARIABLES
    Close,        \* df['Close']: the close price of every bar
    signal_cols,  \* backtest_strategy: the batch of signal columns
    initial_capital, \* backtest_strategy: the initial_capital argument
    position_size,   \* backtest_strategy: position_size, as [num, den]
    col,          \* position of the for loop over signal_cols (1-based)
    i,            \* Python index of the next bar of the inner loop
    signal,       \* the signal value read at the bar processed last
    capital,      \* cash
    position,     \* shares held
    trades,       \* the trade ledger of the current column
    results,      \* results[signal_col]: summary and ledger per column
    pc,           \* control state of backtest_strategy and of its caller
    exc,          \* the exception that left the call, "none" otherwise
    ret,          \* the value the call returned, NoReturn before that
    plotted,      \* the column plot_equity_curve was called for last
    equity,       \* the equity list plot_equity_curve built last
    df,           \* evaluation: the signal columns of the table
    days_forward, \* evaluation: the horizon
    epc,          \* control state of the evaluation functions
    eval_out,     \* what evaluate_individual_signals returned
    combo_out     \* what analyze_signal_combinations returned

vars == <<Close, signal_cols, initial_capital, position_size, col, i, signal, capital, position, trades,
          results, pc, exc, ret, plotted, equity,
          df, days_forward, epc, eval_out, combo_out>>

btVars == <<signal_cols, initial_capital, position_size, col, i, signal, capital, position, trades,
            results, pc, exc, ret, plotted, equity>>

evVars == <<df, days_forward, epc, eval_out, combo_out>>

(***************************************************************************)
(* Bounds of the model.                                                    *)
(***************************************************************************)
NBars == 4            \* a price series has 0 .. NBars bars
MaxPrice == 3         \* close prices are 0 .. MaxPrice
InitialCapital == 4   \* initial_capital of a backtest of Spec
PosNum == 1           \* its position_size is PosNum / PosDen
PosDen == 2
NEvalBars == 2        \* an evaluated table has 0 .. NEvalBars bars
MaxHorizon == 1       \* days_forward is 1 .. MaxHorizon

Prices == 0 .. MaxPrice
Signals == {-1, 0, 1}
NoReturn == [kind |-> "NoReturn"]
NoLedger == << >>

Abs(x) == IF x < 0 THEN -x ELSE x
Min(a, b) == IF a < b THEN a ELSE b
Rat(n, d) == [num |-> n, den |-> d]

\* int(x / y) for x >= 0, y > 0
FloorDiv(x, y) == x \div y

\* data.index[k]
Date(k) == k

\* the rows of a ledger whose type is in kinds, in order
RECURSIVE SelectType(_, _)
SelectType(ledger, kinds) ==
    IF ledger = << >> THEN << >>
    ELSE IF Head(ledger).type \in kinds
         THEN <<Head(ledger)>> \o SelectType(Tail(ledger), kinds)
         ELSE SelectType(Tail(ledger), kinds)

RECURSIVE SumField(_, _)
SumField(rows, f) ==
    IF rows = << >> THEN 0 ELSE Head(rows)[f] + SumField(Tail(rows), f)

(***************************************************************************)
(* backtest_strategy: the pass over the bars of one signal column.         *)
(***************************************************************************)

SharesRoundedUp(cap, price) ==
    FloorDiv(cap * position_size.num + position_size.den * price - 1,
             position_size.den * price)

\* shares = int(capital * position_size / price), for price > 0
SharesFor(cap, price) ==
    FloorDiv(cap * position_size.num, position_size.den * price)

BuyRow(date, price, shares, cost, remaining) ==
    [date |-> date, type |-> "Buy", price |-> price, shares |-> shares,
     cost |-> cost, remaining |-> remaining]

CloseRow(date, kind, price, shares, proceeds, remaining) ==
    [date |-> date, type |-> kind, price |-> price, shares |-> shares,
     proceeds |-> proceeds, remaining |-> remaining]

\* the state the call starts in: nothing processed, nothing returned
BacktestStart ==
    /\ col = 1
    /\ i = 1
    /\ signal = 0
    /\ capital = initial_capital
    /\ position = 0
    /\ trades = << >>
    /\ results = << >>
    /\ pc = "for"
    /\ exc = "none"
    /\ ret = NoReturn
    /\ plotted = "none"
    /\ equity = << >>

\* data[signal_col].iloc[k]: the cell of the column when the table holds the
\* column, any signal when the column is an input that is not fixed
SignalAt(c, k) == IF c \in DOMAIN df THEN {df[c][k + 1]} ELSE Signals

StartColumnFromFirstBar ==
    /\ pc = "for"
    /\ col <= Len(signal_cols)
    /\ capital' = initial_capital
    /\ position' = 0
    /\ trades' = << >>
    /\ i' = 0
    /\ pc' = "bars"
    /\ UNCHANGED <<Close, signal_cols, initial_capital, position_size,
                   col, signal, results, exc, ret,
                   plotted, equity>>
    /\ UNCHANGED evVars

\* for signal_col in signal_cols: capital, position and trades start afresh
StartColumn ==
    /\ pc = "for"
    /\ col <= Len(signal_cols)
    /\ capital' = initial_capital
    /\ position' = 0
    /\ trades' = << >>
    /\ i' = 1
    /\ pc' = "bars"
    /\ UNCHANGED <<Close, signal_cols, initial_capital, position_size,
                   col, signal, results, exc, ret,
                   plotted, equity>>
    /\ UNCHANGED evVars

BuyWhileHolding ==
    /\ pc = "bars"
    /\ i < Len(Close)
    /\ \E s \in SignalAt(signal_cols[col], i) :
        /\ s > 0
        /\ Close[i + 1] # 0
        /\ LET price == Close[i + 1]
               shares == SharesFor(capital, price)
               cost == shares * price
           IN  /\ shares > 0
               /\ signal' = s
               /\ position' = shares
               /\ capital' = capital - cost
               /\ trades' = Append(trades,
                     BuyRow(Date(i), price, shares, cost, capital - cost))
    /\ i' = i + 1
    /\ UNCHANGED <<Close, signal_cols, initial_capital, position_size,
                   col, results, pc, exc, ret, plotted,
                   equity>>
    /\ UNCHANGED evVars

\* signal > 0 and position == 0, and at least one share can be bought
Buy ==
    /\ pc = "bars"
    /\ i < Len(Close)
    /\ \E s \in SignalAt(signal_cols[col], i) :
        /\ s > 0
        /\ position = 0
        /\ Close[i + 1] # 0
        /\ LET price == Close[i + 1]
               shares == SharesFor(capital, price)
               cost == shares * price
           IN  /\ shares > 0
               /\ signal' = s
               /\ position' = shares
               /\ capital' = capital - cost
               /\ trades' = Append(trades,
                     BuyRow(Date(i), price, shares, cost, capital - cost))
    /\ i' = i + 1
    /\ UNCHANGED <<Close, signal_cols, initial_capital, position_size,
                   col, results, pc, exc, ret, plotted,
                   equity>>
    /\ UNCHANGED evVars

BuyNoSharesRecorded ==
    /\ pc = "bars"
    /\ i < Len(Close)
    /\ \E s \in SignalAt(signal_cols[col], i) :
        /\ s > 0
        /\ position = 0
        /\ Close[i + 1] # 0
        /\ SharesFor(capital, Close[i + 1]) <= 0
        /\ signal' = s
        /\ trades' = Append(trades,
              BuyRow(Date(i), Close[i + 1], 0, 0, capital))
    /\ i' = i + 1
    /\ UNCHANGED <<Close, signal_cols, initial_capital, position_size,
                   col, capital, position,
                   results, pc, exc, ret, plotted, equity>>
    /\ UNCHANGED evVars

\* signal > 0 and position == 0, but int(trade_capital / price) is 0
BuyNoShares ==
    /\ pc = "bars"
    /\ i < Len(Close)
    /\ \E s \in SignalAt(signal_cols[col], i) :
        /\ s > 0
        /\ position = 0
        /\ Close[i + 1] # 0
        /\ SharesFor(capital, Close[i + 1]) <= 0
        /\ signal' = s
    /\ i' = i + 1
    /\ UNCHANGED <<Close, signal_cols, initial_capital, position_size,
                   col, capital, position, trades,
                   results, pc, exc, ret, plotted, equity>>
    /\ UNCHANGED evVars

\* signal > 0 and position == 0 at a close of 0: trade_capital / price is
\* infinite (0 / 0 is NaN when capital is 0 too) and int() raises; nothing
\* in backtest_strategy catches it, so it leaves the call
RaiseOnBuy ==
    /\ pc = "bars"
    /\ i < Len(Close)
    /\ \E s \in SignalAt(signal_cols[col], i) :
        /\ s > 0
        /\ position = 0
        /\ Close[i + 1] = 0
        /\ signal' = s
    /\ pc' = "raised"
    /\ exc' = IF capital = 0 THEN "ValueError" ELSE "OverflowError"
    /\ UNCHANGED <<Close, signal_cols, initial_capital, position_size,
                   col, i, capital, position, trades,
                   results, ret, plotted, equity>>
    /\ UNCHANGED evVars

\* signal < 0 and position > 0: the whole position is sold
Sell ==
    /\ pc = "bars"
    /\ i < Len(Close)
    /\ \E s \in SignalAt(signal_cols[col], i) :
        /\ s < 0
        /\ position > 0
        /\ LET price == Close[i + 1]
               proceeds == position * price
           IN  /\ signal' = s
               /\ capital' = capital + proceeds
               /\ trades' = Append(trades,
                     CloseRow(Date(i), "Sell", price, position, proceeds,
                              capital + proceeds))
               /\ position' = 0
    /\ i' = i + 1
    /\ UNCHANGED <<Close, signal_cols, initial_capital, position_size,
                   col, results, pc, exc, ret, plotted,
                   equity>>
    /\ UNCHANGED evVars

\* neither branch is taken
NoOp ==
    /\ pc = "bars"
    /\ i < Len(Close)
    /\ \E s \in SignalAt(signal_cols[col], i) :
        /\ ~(s > 0 /\ position = 0)
        /\ ~(s < 0 /\ position > 0)
        /\ signal' = s
    /\ i' = i + 1
    /\ UNCHANGED <<Close, signal_cols, initial_capital, position_size,
                   col, capital, position, trades,
                   results, pc, exc, ret, plotted, equity>>
    /\ UNCHANGED evVars

\* ForcedClose without the ledger entry
ForcedCloseNotRecorded ==
    /\ pc = "bars"
    /\ ~(i < Len(Close))
    /\ position > 0
    /\ pc' = "stats"
    /\ UNCHANGED <<Close, signal_cols, initial_capital, position_size,
                   col, i, signal, capital, position,
                   trades, results, exc, ret, plotted, equity>>
    /\ UNCHANGED evVars

ForcedCloseAtEntryPrice ==
    /\ pc = "bars"
    /\ ~(i < Len(Close))
    /\ position > 0
    /\ LET last_price == trades[Len(trades)].price
           proceeds == position * last_price
       IN  /\ capital' = capital + proceeds
           /\ trades' = Append(trades,
                 CloseRow(Date(Len(Close) - 1), "ForcedClose", last_price,
                          position, proceeds, capital + proceeds))
    /\ pc' = "stats"
    /\ UNCHANGED <<Close, signal_cols, initial_capital, position_size,
                   col, i, signal, position, results,
                   exc, ret, plotted, equity>>
    /\ UNCHANGED evVars

\* after the loop: a position still held is closed at the last close
\* (position itself is not reset; it is not read again)
ForcedClose ==
    /\ pc = "bars"
    /\ ~(i < Len(Close))
    /\ position > 0
    /\ LET last_price == Close[Len(Close)]
           proceeds == position * last_price
       IN  /\ capital' = capital + proceeds
           /\ trades' = Append(trades,
                 CloseRow(Date(Len(Close) - 1), "ForcedClose", last_price,
                          position, proceeds, capital + proceeds))
    /\ pc' = "stats"
    /\ UNCHANGED <<Close, signal_cols, initial_capital, position_size,
                   col, i, signal, position, results,
                   exc, ret, plotted, equity>>
    /\ UNCHANGED evVars

\* after the loop: no position is held
NoForcedClose ==
    /\ pc = "bars"
    /\ ~(i < Len(Close))
    /\ ~(position > 0)
    /\ pc' = "stats"
    /\ UNCHANGED <<Close, signal_cols, initial_capital, position_size,
                   col, i, signal, capital, position,
                   trades, results, exc, ret, plotted, equity>>
    /\ UNCHANGED evVars

(***************************************************************************)
(* backtest_strategy: the statistics of one column.                        *)
(***************************************************************************)

\* the loop over range(min_count): the k-th buy row is paired with the
\* k-th closing row
RECURSIVE PairLoop(_, _, _, _, _)
PairLoop(buy_trades, sell_trades, k, min_count, acc) ==
    IF k > min_count THEN acc
    ELSE LET buy_price == buy_trades[k].price
             buy_shares == buy_trades[k].shares
             sell_price == sell_trades[k].price
             trade_profit == (sell_price - buy_price) * buy_shares
             holding_days == sell_trades[k].date - buy_trades[k].date
         IN  PairLoop(buy_trades, sell_trades, k + 1, min_count,
               IF trade_profit > 0
               THEN [acc EXCEPT !.winning_trades = @ + 1,
                                !.total_profit = @ + trade_profit,
                                !.holding = @ + holding_days]
               ELSE [acc EXCEPT !.losing_trades = @ + 1,
                                !.total_loss = @ + trade_profit,
                                !.holding = @ + holding_days])

PairStats(ledger) ==
    LET buy_trades == SelectType(ledger, {"Buy"})
        sell_trades == SelectType(ledger, {"Sell", "ForcedClose"})
        zero == [winning_trades |-> 0, losing_trades |-> 0,
                 total_profit |-> 0, total_loss |-> 0, holding |-> 0,
                 min_count |-> 0]
    IN  IF Len(buy_trades) > 0 /\ Len(sell_trades) > 0
        THEN LET min_count == Min(Len(buy_trades), Len(sell_trades))
             IN  PairLoop(buy_trades, sell_trades, 1, min_count,
                          [zero EXCEPT !.min_count = min_count])
        ELSE zero

\* ProfitFactor with 0 in place of infinity
ProfitFactorZeroForNoLoss(total_profit, total_loss) ==
    IF total_loss # 0
    THEN [inf |-> FALSE, num |-> Abs(total_profit), den |-> Abs(total_loss)]
    ELSE [inf |-> FALSE, num |-> 0, den |-> 1]

\* abs(total_profit / total_loss) if total_loss != 0 else float('inf')
ProfitFactor(total_profit, total_loss) ==
    IF total_loss # 0
    THEN [inf |-> FALSE, num |-> Abs(total_profit), den |-> Abs(total_loss)]
    ELSE [inf |-> TRUE, num |-> 0, den |-> 1]

\* the literal 0 of the branch without trades
ZeroFactor == [inf |-> FALSE, num |-> 0, den |-> 1]

\* winning_trades / len(trades) * 100
WinRate(winning_trades, n_rows) == Rat(winning_trades * 100, n_rows)

\* results[signal_col]
Summary(ledger, cap) ==
    IF Len(ledger) > 0
    THEN LET st == PairStats(ledger)
         IN  [initial_capital |-> initial_capital,
              final_capital |-> cap,
              total_return |-> Rat((cap - initial_capital) * 100, initial_capital),
              n_trades |-> Len(ledger) \div 2,
              win_rate |-> WinRate(st.winning_trades, Len(ledger)),
              avg_holding_days |->
                  IF st.min_count > 0 THEN Rat(st.holding, st.min_count)
                                      ELSE Rat(0, 1),
              total_profit |-> st.total_profit,
              total_loss |-> st.total_loss,
              profit_factor |-> ProfitFactor(st.total_profit, st.total_loss),
              trades |-> ledger]
    ELSE [initial_capital |-> initial_capital,
          final_capital |-> cap,
          total_return |-> Rat(0, 1),
          n_trades |-> 0,
          win_rate |-> Rat(0, 1),
          avg_holding_days |-> Rat(0, 1),
          total_profit |-> 0,
          total_loss |-> 0,
          profit_factor |-> ZeroFactor,
          trades |-> NoLedger]

\* the statistics of the column are stored and the for loop goes on
Summarize ==
    /\ pc = "stats"
    /\ results' = (signal_cols[col] :> Summary(trades, capital)) @@ results
    /\ col' = col + 1
    /\ pc' = "for"
    /\ UNCHANGED <<Close, signal_cols, initial_capital, position_size,
                   i, signal, capital, position, trades,
                   exc, ret, plotted, equity>>
    /\ UNCHANGED evVars

\* a >= b for ratios with positive denominators
RatGeq(a, b) == a.num * b.den >= b.num * a.den

\* the orders sort_values('total_return', ascending=False) may give the
\* rows of res (the order of rows that tie is not determined)
SortedByReturn(res) ==
    {order \in [1 .. Cardinality(DOMAIN res) -> DOMAIN res] :
        /\ \A a, b \in DOMAIN order : a # b => order[a] # order[b]
        /\ \A a, b \in DOMAIN order :
             a < b => RatGeq(res[order[a]].total_return,
                             res[order[b]].total_return)}

\* after the last column: the table of the results, sorted, is returned
Return ==
    /\ pc = "for"
    /\ ~(col <= Len(signal_cols))
    /\ \E order \in SortedByReturn(results) :
         ret' = [kind |-> "Return", results_df |-> order, results |-> results]
    /\ pc' = "returned"
    /\ UNCHANGED <<Close, signal_cols, initial_capital, position_size,
                   col, i, signal, capital, position,
                   trades, results, exc, plotted, equity>>
    /\ UNCHANGED evVars

(***************************************************************************)
(* plot_equity_curve: the equity list rebuilt from a ledger.               *)
(***************************************************************************)
DefaultCapital == 1000000

\* the table made of the ledger has a cost column iff some row is a Buy
HasCostColumn(ledger) == \E k \in DOMAIN ledger : ledger[k].type = "Buy"

\* PlotInitialCapital without the cost of the first row
PlotInitialCapitalNoCost(ledger) ==
    IF HasCostColumn(ledger) /\ Len(ledger) > 0
    THEN ledger[1].remaining
    ELSE DefaultCapital

\* the initial capital is derived from the first row of the ledger (a first
\* row that is not a Buy has no cost: the sum would be NaN)
PlotInitialCapital(ledger) ==
    IF HasCostColumn(ledger) /\ Len(ledger) > 0
    THEN IF ledger[1].type = "Buy"
         THEN ledger[1].remaining + ledger[1].cost
         ELSE "NaN"
    ELSE DefaultCapital

\* date in df.index
InIndex(close, date) == date \in 0 .. Len(close) - 1

\* the walk over the rows: st = [capital, position, equity, dates]
RECURSIVE EquityWalk(_, _, _)
EquityWalk(close, rows, st) ==
    IF rows = << >> THEN st
    ELSE LET row == Head(rows)
             cap == IF row.type = "Buy" THEN st.capital - row.cost
                                        ELSE st.capital + row.proceeds
             pos == IF row.type = "Buy" THEN row.shares ELSE 0
             total_equity ==
                 IF pos > 0 /\ InIndex(close, row.date)
                 THEN cap + pos * close[row.date + 1]
                 ELSE cap
         IN  EquityWalk(close, Tail(rows),
               [capital |-> cap, position |-> pos,
                equity |-> Append(st.equity, total_equity),
                dates |-> Append(st.dates, row.date)])

\* the equity list of a ledger that is not empty
EquityCurve(close, ledger) ==
    LET start_capital == PlotInitialCapital(ledger)
        st == EquityWalk(close, ledger,
                [capital |-> start_capital, position |-> 0,
                 equity |-> <<start_capital>>, dates |-> <<Date(0)>>])
    IN  IF st.dates[Len(st.dates)] # Date(Len(close) - 1)
        THEN Append(st.equity,
                    IF st.position > 0
                    THEN st.capital + st.position * close[Len(close)]
                    ELSE st.capital)
        ELSE st.equity

\* run_backtest plots the returned columns; an empty ledger plots nothing
PlotEquityCurve ==
    /\ pc = "returned"
    /\ \E c \in DOMAIN results :
        /\ plotted' = c
        /\ equity' = IF results[c].trades = << >> THEN << >>
                     ELSE EquityCurve(Close, results[c].trades)
    /\ UNCHANGED <<Close, signal_cols, initial_capital, position_size,
                   col, i, signal, capital, position,
                   trades, results, pc, exc, ret>>
    /\ UNCHANGED evVars

(***************************************************************************)
(* The specification of a backtest of a batch of columns.                  *)
(***************************************************************************)
PriceSeries == UNION {[1 .. n -> Prices] : n \in 0 .. NBars}

Batches == {<<"A_Signal">>, <<"A_Signal", "B_Signal">>}

EvalIdle ==
    /\ df = << >>
    /\ days_forward = 1
    /\ epc = "idle"
    /\ eval_out = NoReturn
    /\ combo_out = NoReturn

Init ==
    /\ Close \in PriceSeries
    /\ signal_cols \in Batches
    /\ initial_capital = InitialCapital
    /\ position_size = Rat(PosNum, PosDen)
    /\ BacktestStart
    /\ EvalIdle

Next ==
    \/ StartColumn
    \/ Buy
    \/ BuyNoShares
    \/ RaiseOnBuy
    \/ Sell
    \/ NoOp
    \/ ForcedClose
    \/ NoForcedClose
    \/ Summarize
    \/ Return
    \/ PlotEquityCurve

Spec == Init /\ [][Next]_vars

(***************************************************************************)
(* The backtest of a table whose signal columns are given.  The runs are   *)
(* calls of backtest_strategy on a close series with an initial capital    *)
(* and a position size; the table holds every signal column in full, the   *)
(* first bar included.                                                     *)
(***************************************************************************)
TableCols == {"A_Signal", "B_Signal"}

TableBatches ==
    {<<"A_Signal">>, <<"A_Signal", "B_Signal">>, <<"B_Signal", "A_Signal">>}

TableRuns ==
    { [Close |-> <<10, 12, 8, 15>>, initial_capital |-> 1000,
       position_size |-> Rat(1, 1)],
      [Close |-> <<10, 12, 8>>, initial_capital |-> 1000,
       position_size |-> Rat(1, 5)],
      [Close |-> <<10, 0, 250, 8>>, initial_capital |-> 1000,
       position_size |-> Rat(1, 5)],
      [Close |-> <<10>>, initial_capital |-> 1000,
       position_size |-> Rat(1, 5)],
      [Close |-> << >>, initial_capital |-> 1000,
       position_size |-> Rat(1, 5)] }

InitTable ==
    /\ \E run \in TableRuns :
          /\ Close = run.Close
          /\ initial_capital = run.initial_capital
          /\ position_size = run.position_size
    /\ signal_cols \in TableBatches
    /\ df \in [TableCols -> [1 .. Len(Close) -> Signals]]
    /\ BacktestStart
    /\ days_forward = 1
    /\ epc = "idle"
    /\ eval_out = NoReturn
    /\ combo_out = NoReturn

SpecTable == InitTable /\ [][Next]_vars

(***************************************************************************)
(* evaluate_individual_signals.  A ratio whose denominator is 0 is NaN     *)
(* (the mean of an empty selection).                                       *)
(***************************************************************************)
NaN == Rat(0, 0)
IsNaN(r) == r.den = 0
Frac(n, d) == IF d = 0 THEN NaN ELSE Rat(n, d)

\* the columns whose name holds '_Signal' or ends in '_Col', in table order
ColumnOrder == <<"A_Signal", "B_Signal", "C_Signal">>
EvalCols == {ColumnOrder[k] : k \in DOMAIN ColumnOrder}

\* Close.pct_change(h).shift(-h) at bar k (1-based) is defined iff the bar
\* k + h exists; its sign is that of close[k + h] - close[k]
HasReturn(close, h, k) == k + h <= Len(close)
ReturnDiff(close, h, k) == close[k + h] - close[k]

\* data.loc[data[signal_col] > 0] and data.loc[data[signal_col] < 0]
BuyDates(column) == {k \in DOMAIN column : column[k] > 0}
SellDates(column) == {k \in DOMAIN column : column[k] < 0}

\* the rows of a selection whose return is not NaN
NotNa(close, h, dates) == {k \in dates : HasReturn(close, h, k)}

RECURSIVE Product(_)
Product(seq) == IF seq = << >> THEN 1 ELSE Head(seq) * Product(Tail(seq))

\* the sum of the returns of the dates, over the denominator Product(close)
RECURSIVE SumReturns(_, _, _)
SumReturns(close, h, dates) ==
    IF dates = {} THEN 0
    ELSE LET k == CHOOSE d \in dates : TRUE
         IN  ReturnDiff(close, h, k) * (Product(close) \div close[k])
             + SumReturns(close, h, dates \ {k})

\* selection[Return].mean() * 100: the mean skips the NaN rows
MeanReturn(close, h, dates) ==
    LET valid == NotNa(close, h, dates)
    IN  Frac(100 * SumReturns(close, h, valid),
             Product(close) * Cardinality(valid))

Negated(r) == Rat(-r.num, r.den)

\* EvalBuyAccuracy without the isna() filter
EvalBuyAccuracyKeepsNaN(close, h, dates) ==
    Frac(Cardinality({k \in dates :
             HasReturn(close, h, k) /\ ReturnDiff(close, h, k) > 0}),
         Cardinality(dates))

\* (buy_signals[~isna][Return] > 0).mean()
EvalBuyAccuracy(close, h, dates) ==
    LET valid == NotNa(close, h, dates)
    IN  Frac(Cardinality({k \in valid : ReturnDiff(close, h, k) > 0}),
             Cardinality(valid))

\* (sell_signals[~isna][Return] < 0).mean()
EvalSellAccuracy(close, h, dates) ==
    LET valid == NotNa(close, h, dates)
    IN  Frac(Cardinality({k \in valid : ReturnDiff(close, h, k) < 0}),
             Cardinality(valid))

EvalTotalAccuracy(close, h, buys, sells) ==
    IF Cardinality(buys) > 0 /\ Cardinality(sells) > 0
    THEN LET vb == NotNa(close, h, buys)
             vs == NotNa(close, h, sells)
         IN  Frac(Cardinality({k \in vb : ReturnDiff(close, h, k) > 0})
                  + Cardinality({k \in vs : ReturnDiff(close, h, k) < 0}),
                  Cardinality(vb) + Cardinality(vs))
    ELSE IF Cardinality(buys) > 0 THEN EvalBuyAccuracy(close, h, buys)
    ELSE IF Cardinality(sells) > 0 THEN EvalSellAccuracy(close, h, sells)
    ELSE NaN

\* EvalSkips that skips nothing
EvalSkipsNothing(total_signals) == FALSE

\* if total_signals == 0: continue
EvalSkips(total_signals) == total_signals = 0

\* the row of one signal column
EvalRow(close, h, name, column) ==
    LET buys == BuyDates(column)
        sells == SellDates(column)
        buy_count == Cardinality(buys)
        sell_count == Cardinality(sells)
    IN  [Signal |-> name,
         Buy_Signals |-> buy_count,
         Sell_Signals |-> sell_count,
         Total_Signals |-> buy_count + sell_count,
         Buy_Accuracy |-> IF buy_count > 0
                          THEN EvalBuyAccuracy(close, h, buys) ELSE NaN,
         Sell_Accuracy |-> IF sell_count > 0
                           THEN EvalSellAccuracy(close, h, sells) ELSE NaN,
         Total_Accuracy |-> EvalTotalAccuracy(close, h, buys, sells),
         Buy_Return |-> IF buy_count > 0
                        THEN MeanReturn(close, h, buys) ELSE NaN,
         Sell_Return |-> IF sell_count > 0
                         THEN Negated(MeanReturn(close, h, sells)) ELSE NaN]

\* the loop over the signal columns, from column k of the table on
RECURSIVE EvalRows(_, _, _, _)
EvalRows(close, h, table, k) ==
    IF k > Len(ColumnOrder) THEN << >>
    ELSE LET name == ColumnOrder[k]
             row == EvalRow(close, h, name, table[name])
         IN  IF EvalSkips(row.Total_Signals)
             THEN EvalRows(close, h, table, k + 1)
             ELSE <<row>> \o EvalRows(close, h, table, k + 1)

\* the list of rows is not empty: the table of the rows is returned
EvaluateIndividualSignals ==
    /\ epc = "start"
    /\ LET rows == EvalRows(Close, days_forward, df, 1)
       IN  /\ rows # << >>
           /\ eval_out' = [kind |-> "Return", rows |-> rows]
    /\ epc' = "evaluated"
    /\ UNCHANGED <<Close, df, days_forward, combo_out>>
    /\ UNCHANGED btVars

\* the list of rows is empty: the table made of it has no 'Signal' column
\* and set_index('Signal') raises KeyError
EvaluateRaises ==
    /\ epc = "start"
    /\ EvalRows(Close, days_forward, df, 1) = << >>
    /\ eval_out' = [kind |-> "KeyError"]
    /\ epc' = "raised"
    /\ UNCHANGED <<Close, df, days_forward, combo_out>>
    /\ UNCHANGED btVars

(***************************************************************************)
(* analyze_signal_combinations.                                            *)
(***************************************************************************)

\* the lists of indicators the analysis is asked for
IndicatorLists == {<<"A_Signal", "B_Signal">>,
                   <<"A_Signal", "B_Signal", "C_Signal">>}

\* range(2, min(len(indicators) + 1, 4))
ComboSizes(indicators) == 2 .. (Min(Len(indicators) + 1, 4) - 1)

\* combinations(indicators, size), as tuples of positions
IndexCombos(n, size) ==
    {c \in [1 .. size -> 1 .. n] :
        \A a, b \in 1 .. size : a < b => c[a] < c[b]}

\* the order in which combinations() yields two tuples of one size
RECURSIVE LexBefore(_, _)
LexBefore(a, b) ==
    IF a = << >> \/ b = << >> THEN FALSE
    ELSE IF Head(a) # Head(b) THEN Head(a) < Head(b)
    ELSE LexBefore(Tail(a), Tail(b))

RECURSIVE InLexOrder(_)
InLexOrder(S) ==
    IF S = {} THEN << >>
    ELSE LET first == CHOOSE c \in S : \A d \in S \ {c} : LexBefore(c, d)
         IN  <<first>> \o InLexOrder(S \ {first})

\* every combination of every size, in the order of the two loops
RECURSIVE CombosFrom(_, _)
CombosFrom(indicators, size) ==
    IF size \notin ComboSizes(indicators) THEN << >>
    ELSE InLexOrder(IndexCombos(Len(indicators), size))
         \o CombosFrom(indicators, size + 1)

\* ComboBuyDates with the masks or-ed
ComboBuyDatesAnyMember(table, n, combo) ==
    {k \in 1 .. n : \E m \in DOMAIN combo : table[combo[m]][k] > 0}

\* buy_mask: df[combo[0]] > 0, and-ed with (df[ind] > 0) for the others
ComboBuyDates(table, n, combo) ==
    {k \in 1 .. n : \A m \in DOMAIN combo : table[combo[m]][k] > 0}

\* sell_mask: df[combo[0]] < 0, and-ed with (df[ind] < 0) for the others
ComboSellDates(table, n, combo) ==
    {k \in 1 .. n : \A m \in DOMAIN combo : table[combo[m]][k] < 0}

\* (buy_signals[Return] > 0).mean(): a NaN return compares False and the
\* row stays in the mean
ComboBuyAccuracy(close, h, dates) ==
    Frac(Cardinality({k \in dates :
             HasReturn(close, h, k) /\ ReturnDiff(close, h, k) > 0}),
         Cardinality(dates))

\* (sell_signals[Return] < 0).mean()
ComboSellAccuracy(close, h, dates) ==
    Frac(Cardinality({k \in dates :
             HasReturn(close, h, k) /\ ReturnDiff(close, h, k) < 0}),
         Cardinality(dates))

\* if buy_count > 0 or sell_count > 0: the combination is saved
ComboSaved(buy_count, sell_count) == buy_count > 0 \/ sell_count > 0

ComboRow(close, h, table, combo) ==
    LET buys == ComboBuyDates(table, Len(close), combo)
        sells == ComboSellDates(table, Len(close), combo)
        buy_count == Cardinality(buys)
        sell_count == Cardinality(sells)
    IN  [Indicators |-> combo,
         Buy_Signals |-> buy_count,
         Sell_Signals |-> sell_count,
         Buy_Accuracy |-> IF buy_count > 0
                          THEN ComboBuyAccuracy(close, h, buys) ELSE NaN,
         Sell_Accuracy |-> IF sell_count > 0
                           THEN ComboSellAccuracy(close, h, sells) ELSE NaN,
         Buy_Return |-> IF buy_count > 0
                        THEN MeanReturn(close, h, buys) ELSE NaN,
         Sell_Return |-> IF sell_count > 0
                         THEN Negated(MeanReturn(close, h, sells)) ELSE NaN,
         Total_Signals |-> buy_count + sell_count]

\* the rows of the saved combinations, in the order they are saved
RECURSIVE ComboRows(_, _, _, _, _)
ComboRows(close, h, table, indicators, combos) ==
    IF combos = << >> THEN << >>
    ELSE LET combo == [m \in DOMAIN Head(combos) |->
                          indicators[Head(combos)[m]]]
             row == ComboRow(close, h, table, combo)
             rest == ComboRows(close, h, table, indicators, Tail(combos))
         IN  IF ComboSaved(row.Buy_Signals, row.Sell_Signals)
             THEN <<row>> \o rest
             ELSE rest

\* x sorts before y in a descending sort that puts NaN last
SortsBefore(x, y) ==
    IF IsNaN(x) THEN FALSE
    ELSE IF IsNaN(y) THEN TRUE
    ELSE x.num * y.den > y.num * x.den

SortsEqual(x, y) == ~SortsBefore(x, y) /\ ~SortsBefore(y, x)

\* the row a ranks before the row b by (Buy_Accuracy, Buy_Return)
Outranks(a, b) ==
    \/ SortsBefore(a.Buy_Accuracy, b.Buy_Accuracy)
    \/ /\ SortsEqual(a.Buy_Accuracy, b.Buy_Accuracy)
       /\ SortsBefore(a.Buy_Return, b.Buy_Return)

\* sort_values(['Buy_Accuracy', 'Buy_Return'], ascending=False): the sort
\* on several keys is stable, rows that tie keep their order
SortCombos(rows) ==
    LET perm == CHOOSE p \in [DOMAIN rows -> DOMAIN rows] :
                  /\ \A a, b \in DOMAIN rows : a # b => p[a] # p[b]
                  /\ \A a, b \in DOMAIN rows : a < b =>
                        \/ Outranks(rows[p[a]], rows[p[b]])
                        \/ /\ ~Outranks(rows[p[b]], rows[p[a]])
                           /\ p[a] < p[b]
    IN  [k \in DOMAIN rows |-> rows[perm[k]]]

\* the saved combinations, sorted (an empty table when none is saved)
AnalyzeSignalCombinations ==
    /\ epc = "evaluated"
    /\ \E indicators \in IndicatorLists :
         combo_out' =
           [kind |-> "Return", indicators |-> indicators,
            rows |-> SortCombos(ComboRows(Close, days_forward, df, indicators,
                                          CombosFrom(indicators, 2)))]
    /\ epc' = "analyzed"
    /\ UNCHANGED <<Close, df, days_forward, eval_out>>
    /\ UNCHANGED btVars

(***************************************************************************)
(* The specification of an evaluation of a table of signal columns.        *)
(***************************************************************************)
\* the close prices of an evaluated table: two positive prices give a
\* forward return of every sign
EvalPrices == {1, 2}

InitEval ==
    /\ \E n \in 0 .. NEvalBars :
        /\ Close \in [1 .. n -> EvalPrices]
        /\ df \in [EvalCols -> [1 .. n -> Signals]]
    /\ days_forward \in 1 .. MaxHorizon
    /\ epc = "start"
    /\ eval_out = NoReturn
    /\ combo_out = NoReturn
    /\ signal_cols = << >>
    /\ initial_capital = InitialCapital
    /\ position_size = Rat(PosNum, PosDen)
    /\ BacktestStart

NextEval ==
    \/ EvaluateIndividualSignals
    \/ EvaluateRaises
    \/ AnalyzeSignalCombinations

SpecEval == InitEval /\ [][NextEval]_vars

(***************************************************************************)
(* Properties of the backtest (specification Spec).                        *)
(***************************************************************************)
IsClosing(row) == row.type \in {"Sell", "ForcedClose"}
BuyRows(ledger) == SelectType(ledger, {"Buy"})
ClosingRows(ledger) == SelectType(ledger, {"Sell", "ForcedClose"})

\* the shares bought are the shares sold, every Buy has a later closing
\* entry, and a ForcedClose is the last entry
EndsFlat(ledger) ==
    /\ SumField(BuyRows(ledger), "shares")
         = SumField(ClosingRows(ledger), "shares")
    /\ \A k \in DOMAIN ledger :
         ledger[k].type = "Buy" =>
            \E j \in DOMAIN ledger : j > k /\ IsClosing(ledger[j])
    /\ \A k \in DOMAIN ledger :
         ledger[k].type = "ForcedClose" => k = Len(ledger)

\* C1: the ledger of every column ends flat: the shares held according to
\* the ledger are 0 after the pass, no Buy is left without a later Sell or
\* ForcedClose, and a ForcedClose is there, once and as the last entry,
\* exactly when a position was still open after the last bar.
C1_LedgerEndsFlat ==
    /\ pc = "stats" =>
         /\ EndsFlat(trades)
         /\ position > 0 <=>
              (trades # << >> /\ trades[Len(trades)].type = "ForcedClose")
    /\ \A c \in DOMAIN results : EndsFlat(results[c].trades)

C1_Witness ==
    /\ pc = "stats"
    /\ position > 0
    /\ Len(trades) = 4
    /\ trades[4].type = "ForcedClose"

\* C2: with at least one trade, final capital is initial capital plus the
\* proceeds of the closing rows minus the costs of the Buy rows, and the last
\* point of the equity list rebuilt from the ledger is that final capital.
C2_FinalCapitalIsLedgerSumAndLastEquity ==
    /\ \A c \in DOMAIN results :
         results[c].trades # << >> =>
            results[c].final_capital
              = results[c].initial_capital
                + SumField(ClosingRows(results[c].trades), "proceeds")
                - SumField(BuyRows(results[c].trades), "cost")
    /\ (plotted # "none" /\ results[plotted].trades # << >>) =>
         /\ equity # << >>
         /\ equity[Len(equity)] = results[plotted].final_capital

C2_Witness ==
    /\ plotted # "none"
    /\ Len(results[plotted].trades) = 4
    /\ Len(equity) >= 5
    /\ results[plotted].final_capital # InitialCapital

\* C3: the profit factor is infinite iff gross loss is 0 and gross profit is
\* greater than 0.
C3_InfiniteIffNoLossAndSomeProfit ==
    \A c \in DOMAIN results :
        results[c].profit_factor.inf
          <=> (results[c].total_loss = 0 /\ results[c].total_profit > 0)

IsZeroFactor(f) == ~f.inf /\ f.num = 0
IsZeroRat(r) == r.num = 0 /\ r.den # 0

AllZeroSummary(r) ==
    /\ IsZeroFactor(r.profit_factor)
    /\ r.n_trades = 0
    /\ IsZeroRat(r.win_rate)
    /\ IsZeroRat(r.avg_holding_days)
    /\ r.total_profit = 0
    /\ r.total_loss = 0

\* C4 as stated: the profit factor is 0 iff no trade was completed, and an
\* empty ledger reports 0 for every statistic.
C4_ZeroIffNoTrades ==
    \A c \in DOMAIN results :
        /\ IsZeroFactor(results[c].profit_factor) <=> results[c].n_trades = 0
        /\ results[c].trades = << >> => AllZeroSummary(results[c])

\* C4, amended: the profit factor is 0 iff no trade was completed or gross
\* profit is 0 while gross loss is not; an empty ledger reports 0 (not
\* infinity) for the profit factor and for every other statistic.
C4_ZeroIffNoTradesOrNoProfit ==
    \A c \in DOMAIN results :
        /\ IsZeroFactor(results[c].profit_factor)
             <=> \/ results[c].n_trades = 0
                 \/ (results[c].total_profit = 0 /\ results[c].total_loss # 0)
        /\ results[c].trades = << >> => AllZeroSummary(results[c])

C4_Witness ==
    \E c \in DOMAIN results :
        /\ results[c].n_trades >= 1
        /\ results[c].total_loss < 0
        /\ IsZeroFactor(results[c].profit_factor)

\* C5: when a column of the batch fails, the call still returns the results
\* of every column that succeeded.
C5_PartialResultsReturned ==
    \A c \in DOMAIN results :
        exc # "none" => (ret.kind = "Return" /\ c \in DOMAIN ret.results)

(***************************************************************************)
(* Properties of the evaluation (specification SpecEval).                  *)
(***************************************************************************)
NoTriggers == \A c \in EvalCols : \A k \in DOMAIN df[c] : df[c][k] = 0

\* C6: a table without data or without any buy or sell trigger never ends
\* in an error: the evaluation returns an empty result.
C6_NoSignalsNeverRaise ==
    NoTriggers =>
        /\ epc # "raised"
        /\ eval_out.kind = "Return" => eval_out.rows = << >>

\* the value of the ratio r is n / d (NaN when d is 0)
IsRatio(r, n, d) ==
    IF d = 0 THEN IsNaN(r) ELSE ~IsNaN(r) /\ r.num * d = n * r.den

DefinedDates(dates) ==
    {k \in dates : k + days_forward <= Len(Close)}
RisingDates(dates) ==
    {k \in DefinedDates(dates) : Close[k + days_forward] > Close[k]}
FallingDates(dates) ==
    {k \in DefinedDates(dates) : Close[k + days_forward] < Close[k]}

\* C7: a trigger date without a forward return is left out of the
\* denominators: Buy_Accuracy is (buy dates with a defined return > 0) /
\* (buy dates with a defined return), Sell_Accuracy likewise with < 0, and
\* Total_Accuracy is the sum of the numerators over the sum of the
\* denominators.
C7_UndefinedReturnsExcluded ==
    eval_out.kind = "Return" =>
      \A k \in DOMAIN eval_out.rows :
        LET row == eval_out.rows[k]
            buys == {d \in DOMAIN df[row.Signal] : df[row.Signal][d] > 0}
            sells == {d \in DOMAIN df[row.Signal] : df[row.Signal][d] < 0}
        IN  /\ IsRatio(row.Buy_Accuracy,
                       Cardinality(RisingDates(buys)),
                       Cardinality(DefinedDates(buys)))
            /\ IsRatio(row.Sell_Accuracy,
                       Cardinality(FallingDates(sells)),
                       Cardinality(DefinedDates(sells)))
            /\ IsRatio(row.Total_Accuracy,
                       Cardinality(RisingDates(buys))
                         + Cardinality(FallingDates(sells)),
                       Cardinality(DefinedDates(buys))
                         + Cardinality(DefinedDates(sells)))

C7_Witness ==
    /\ eval_out.kind = "Return"
    /\ \E k \in DOMAIN eval_out.rows :
         LET row == eval_out.rows[k]
             buys == {d \in DOMAIN df[row.Signal] : df[row.Signal][d] > 0}
         IN  /\ DefinedDates(buys) # buys
             /\ RisingDates(buys) # {}
             /\ row.Buy_Accuracy = Rat(1, 1)

SameRatio(x, y) ==
    \/ IsNaN(x) /\ IsNaN(y)
    \/ ~IsNaN(x) /\ ~IsNaN(y) /\ x.num * y.den = y.num * x.den

\* the column that is +1 on the composite buy dates of a combination and
\* -1 on its composite sell dates
CompositeColumn(combo) ==
    [k \in 1 .. Len(Close) |->
        IF \A m \in DOMAIN combo : df[combo[m]][k] > 0 THEN 1
        ELSE IF \A m \in DOMAIN combo : df[combo[m]][k] < 0 THEN -1
        ELSE 0]

\* C8: the accuracies of a combination are the accuracies the evaluation of
\* single columns gives for its composite column.
C8_CombinationScoredAsColumn ==
    combo_out.kind = "Return" =>
      \A k \in DOMAIN combo_out.rows :
        LET row == combo_out.rows[k]
            single == EvalRow(Close, days_forward, "composite",
                              CompositeColumn(row.Indicators))
        IN  /\ SameRatio(row.Buy_Accuracy, single.Buy_Accuracy)
            /\ SameRatio(row.Sell_Accuracy, single.Sell_Accuracy)

Members(combo) == {combo[m] : m \in DOMAIN combo}

\* C9: for every subset of 2 or 3 of the indicators, the buy (sell) count of
\* the combination is the number of dates where every member is > 0 (< 0),
\* and the combination is in the output iff it has such a date; the output
\* has no other row.
C9_CompositeTriggersAreConjunctions ==
    combo_out.kind = "Return" =>
      LET inds == combo_out.indicators
          rows == combo_out.rows
          subsets == {S \in SUBSET Members(inds) : Cardinality(S) \in {2, 3}}
      IN  /\ \A S \in subsets :
                LET buys == {d \in 1 .. Len(Close) : \A c \in S : df[c][d] > 0}
                    sells == {d \in 1 .. Len(Close) : \A c \in S : df[c][d] < 0}
                    present == {k \in DOMAIN rows :
                                   Members(rows[k].Indicators) = S}
                IN  /\ present # {} <=> (buys # {} \/ sells # {})
                    /\ Cardinality(present) <= 1
                    /\ \A k \in present :
                         /\ rows[k].Buy_Signals = Cardinality(buys)
                         /\ rows[k].Sell_Signals = Cardinality(sells)
          /\ \A k \in DOMAIN rows : Members(rows[k].Indicators) \in subsets

C9_Witness ==
    /\ combo_out.kind = "Return"
    /\ Len(combo_out.indicators) = 3
    /\ \E k, j \in DOMAIN combo_out.rows :
         /\ Len(combo_out.rows[k].Indicators) = 3
         /\ combo_out.rows[k].Buy_Signals = 1
         /\ Len(combo_out.rows[j].Indicators) = 2
         /\ combo_out.rows[j].Buy_Signals = 2

\* C10: Total_Signals = Buy_Signals + Sell_Signals in every row, and a
\* column has a row iff it has a buy or a sell trigger.
C10_ReportedIffSomeSignal ==
    eval_out.kind = "Return" =>
      \A c \in EvalCols :
        LET buys == {d \in DOMAIN df[c] : df[c][d] > 0}
            sells == {d \in DOMAIN df[c] : df[c][d] < 0}
            present == {k \in DOMAIN eval_out.rows :
                           eval_out.rows[k].Signal = c}
        IN  /\ present # {} <=> Cardinality(buys) + Cardinality(sells) > 0
            /\ \A k \in present :
                 /\ eval_out.rows[k].Buy_Signals = Cardinality(buys)
                 /\ eval_out.rows[k].Sell_Signals = Cardinality(sells)
                 /\ eval_out.rows[k].Total_Signals
                      = eval_out.rows[k].Buy_Signals
                        + eval_out.rows[k].Sell_Signals

C10_Witness ==
    /\ eval_out.kind = "Return"
    /\ Len(eval_out.rows) = 2
    /\ \E k \in DOMAIN eval_out.rows :
         /\ eval_out.rows[k].Buy_Signals > 0
         /\ eval_out.rows[k].Sell_Signals > 0

(***************************************************************************)
(* The forced close.                                                       *)
(***************************************************************************)
\* a ForcedClose of the ledger is dated at the last bar of the close series,
\* priced at its close, and sells the shares of the Buy just before it
ForcedCloseAtLastBar(ledger, close) ==
    \A k \in DOMAIN ledger :
       ledger[k].type = "ForcedClose" =>
          /\ ledger[k].date = Date(Len(close) - 1)
          /\ ledger[k].price = close[Len(close)]
          /\ k > 1
          /\ ledger[k - 1].type = "Buy"
          /\ ledger[k].shares = ledger[k - 1].shares

\* C11: a position still open after the last bar is closed by a ForcedClose
\* entry dated at the last bar, priced at the last close and covering all
\* the shares held, and that entry counts as a closing leg: the reported
\* number of trades is the number of Buy entries.  Prices 10, 12, 8 with
\* signals 0, 1, 0 and a capital of 1000 give a Buy at 12, a ForcedClose
\* at 8 and one trade.
C11_ForcedCloseIsClosingLeg ==
    /\ (pc = "stats" /\ position > 0) =>
         /\ trades # << >>
         /\ trades[Len(trades)].type = "ForcedClose"
         /\ trades[Len(trades)].shares = position
         /\ ForcedCloseAtLastBar(trades, Close)
    /\ \A c \in DOMAIN results :
         /\ ForcedCloseAtLastBar(results[c].trades, Close)
         /\ results[c].n_trades = Len(BuyRows(results[c].trades))
         /\ (Close = <<10, 12, 8>> /\ df[c] = <<0, 1, 0>>
               /\ initial_capital = 1000) =>
              /\ Len(results[c].trades) = 2
              /\ results[c].trades[1].type = "Buy"
              /\ results[c].trades[1].price = 12
              /\ results[c].trades[2].type = "ForcedClose"
              /\ results[c].trades[2].price = 8
              /\ results[c].trades[2].date = Date(2)
              /\ results[c].n_trades = 1

C11_Witness ==
    \E c \in DOMAIN results :
       /\ Close = <<10, 12, 8>>
       /\ df[c] = <<0, 1, 0>>
       /\ Len(results[c].trades) = 2
       /\ results[c].trades[2].type = "ForcedClose"
       /\ results[c].trades[2].shares = results[c].trades[1].shares
       /\ results[c].n_trades = 1

(***************************************************************************)
(* A losing round trip.                                                    *)
(***************************************************************************)
\* C12: closes 10, 12, 8, 15 with signals 0, 1, -1, 0, an initial capital of
\* 1000 and a position size of 1.0: 83 shares are bought at 12 on the second
\* bar (cost 996, cash 4) and sold at 8 on the third (proceeds 664, cash
\* 668), there is no ForcedClose, the final capital is 668 and the total
\* return is -33.2 percent.
C12_LosingRoundTrip ==
    \A c \in DOMAIN results :
       (/\ Close = <<10, 12, 8, 15>>
        /\ df[c] = <<0, 1, -1, 0>>
        /\ initial_capital = 1000
        /\ position_size = Rat(1, 1)) =>
          /\ results[c].trades
               = << BuyRow(Date(1), 12, 83, 996, 4),
                    CloseRow(Date(2), "Sell", 8, 83, 664, 668) >>
          /\ results[c].final_capital = 668
          /\ results[c].total_return.den > 0
          /\ results[c].total_return.num * 10
               = (0 - 332) * results[c].total_return.den

C12_Witness ==
    \E c \in DOMAIN results :
       /\ Close = <<10, 12, 8, 15>>
       /\ df[c] = <<0, 1, -1, 0>>
       /\ position_size = Rat(1, 1)
       /\ Len(results[c].trades) = 2
       /\ results[c].trades[2].type = "Sell"
       /\ results[c].final_capital = 668

(***************************************************************************)
(* What a bar changes.                                                     *)
(***************************************************************************)
\* a step of the bar loop, and the state it may change
BarStep == pc = "bars" /\ i < Len(Close)
Holdings == <<capital, position, trades>>

\* the step appended one entry of the kind to the ledger
Emits(kind) ==
    /\ Len(trades') = Len(trades) + 1
    /\ SubSeq(trades', 1, Len(trades)) = trades
    /\ trades'[Len(trades')].type = kind

\* the bars that neither buy nor sell: a buy signal while holding, a sell
\* signal while flat, no signal, a buy signal while flat that affords no
\* share
QuietBar ==
    \/ signal' > 0 /\ position > 0
    \/ signal' < 0 /\ position = 0
    \/ signal' = 0
    \/ /\ signal' > 0
       /\ position = 0
       /\ Close[i + 1] > 0
       /\ SharesFor(capital, Close[i + 1]) = 0

\* C13: a bar changes cash, shares held or the ledger only when it emits a
\* Buy of at least one share while flat or a Sell while holding; on a buy
\* signal while holding, a sell signal while flat, a signal of 0 and a buy
\* signal while flat whose share count is 0, all three are unchanged and no
\* error is raised.
C13_OnlyBuyAndSellChangeState ==
    [][BarStep =>
         /\ Holdings' # Holdings =>
              \/ /\ position = 0
                 /\ signal' > 0
                 /\ Emits("Buy")
                 /\ trades'[Len(trades')].shares >= 1
                 /\ position' = trades'[Len(trades')].shares
              \/ /\ position > 0
                 /\ signal' < 0
                 /\ Emits("Sell")
                 /\ position' = 0
         /\ QuietBar =>
              /\ Holdings' = Holdings
              /\ pc' = "bars"
              /\ exc' = exc
              /\ i' = i + 1]_vars

C13_Witness ==
    /\ pc = "bars"
    /\ i > 1
    /\ signal > 0
    /\ position = 0
    /\ trades = << >>
    /\ capital = initial_capital
    /\ Close[i] > 0
    /\ SharesFor(capital, Close[i]) = 0

(***************************************************************************)
(* The win rate.                                                           *)
(***************************************************************************)
\* C14: the reported win rate is the percentage of round trips that are
\* wins, a round trip being a win when (sell price - buy price) * shares
\* is above 0: it is 100 * winning round trips / number of trades, so a
\* ledger whose round trips are all profitable reports 100.
C14_WinRateOverRoundTrips ==
    \A c \in DOMAIN results :
       results[c].n_trades > 0 =>
          LET stats == PairStats(results[c].trades)
          IN  /\ results[c].win_rate.den > 0
              /\ results[c].win_rate.num * results[c].n_trades
                   = 100 * stats.winning_trades * results[c].win_rate.den
              /\ stats.winning_trades = results[c].n_trades =>
                   results[c].win_rate.num = 100 * results[c].win_rate.den

(***************************************************************************)
(* One column on its own.                                                  *)
(***************************************************************************)
\* the pass over bars k, k + 1, ... of one signal column, from the cash,
\* shares and ledger of st; raised is set when int() fails on a buy
RECURSIVE RunBars(_, _, _, _)
RunBars(close, column, k, st) ==
    IF k >= Len(close) \/ st.raised THEN st
    ELSE LET s == column[k + 1]
             price == close[k + 1]
             shares == SharesFor(st.capital, price)
             cost == shares * price
             proceeds == st.position * price
         IN  IF s > 0 /\ st.position = 0
             THEN IF price = 0
                  THEN [st EXCEPT !.raised = TRUE]
                  ELSE IF shares > 0
                  THEN RunBars(close, column, k + 1,
                         [st EXCEPT !.capital = st.capital - cost,
                                    !.position = shares,
                                    !.trades = Append(st.trades,
                                        BuyRow(Date(k), price, shares, cost,
                                               st.capital - cost))])
                  ELSE RunBars(close, column, k + 1, st)
             ELSE IF s < 0 /\ st.position > 0
             THEN RunBars(close, column, k + 1,
                    [st EXCEPT !.capital = st.capital + proceeds,
                               !.position = 0,
                               !.trades = Append(st.trades,
                                   CloseRow(Date(k), "Sell", price,
                                            st.position, proceeds,
                                            st.capital + proceeds))])
             ELSE RunBars(close, column, k + 1, st)

\* backtest_strategy's pass over a single column, the forced close included
SoloRun(close, column) ==
    LET st == RunBars(close, column, 1,
                 [capital |-> initial_capital, position |-> 0,
                  trades |-> << >>, raised |-> FALSE])
        last_price == close[Len(close)]
        proceeds == st.position * last_price
    IN  IF ~st.raised /\ st.position > 0
        THEN [st EXCEPT !.capital = st.capital + proceeds,
                        !.trades = Append(st.trades,
                            CloseRow(Date(Len(close) - 1), "ForcedClose",
                                     last_price, st.position, proceeds,
                                     st.capital + proceeds))]
        ELSE st

\* C15: the result of a signal column, its ledger and its summary, depends
\* only on that column, the close prices, initial_capital and
\* position_size: whatever other columns the batch holds and in whatever
\* order, the call returns for the column what the pass over that column
\* alone produces.
C15_ResultDependsOnColumnOnly ==
    pc \in {"returned", "raised"} =>
       \A k \in DOMAIN signal_cols :
          LET c == signal_cols[k]
              solo == SoloRun(Close, df[c])
          IN  ~solo.raised =>
                 /\ ret.kind = "Return"
                 /\ c \in DOMAIN ret.results
                 /\ ret.results[c] = Summary(solo.trades, solo.capital)

(***************************************************************************)
(* The first bar.                                                          *)
(***************************************************************************)
\* the column with the signal of its first bar taken away
WithoutFirstSignal(column) ==
    IF Len(column) = 0 THEN column ELSE [column EXCEPT ![1] = 0]

\* the Buy and Sell entries of the ledger are dated at bar 1 or later
DatedAfterFirstBar(ledger) ==
    \A k \in DOMAIN ledger :
       ledger[k].type \in {"Buy", "Sell"} => ledger[k].date >= Date(1)

\* C16: the first bar is never actionable.  The pass visits bars 1 .. n - 1
\* only: the loop is at bar 1 or later with cash, shares and ledger as they
\* started when it reaches bar 1, every Buy and every Sell of a ledger is
\* dated at bar 1 or later, and the result of a column is the result of the
\* column without the signal of its first bar.
C16_FirstBarNeverActionable ==
    /\ pc = "bars" =>
         /\ i >= 1
         /\ i = 1 => /\ capital = initial_capital
                     /\ position = 0
                     /\ trades = << >>
         /\ DatedAfterFirstBar(trades)
    /\ \A c \in DOMAIN results :
         LET solo == SoloRun(Close, WithoutFirstSignal(df[c]))
         IN  /\ DatedAfterFirstBar(results[c].trades)
             /\ results[c] = Summary(solo.trades, solo.capital)

C16_Witness ==
    \E c \in DOMAIN results :
       /\ Len(Close) >= 2
       /\ df[c][1] > 0
       /\ Close[1] > 0
       /\ SharesFor(initial_capital, Close[1]) > 0
       /\ results[c].trades # << >>
       /\ results[c].trades[1].type = "Buy"
       /\ results[c].trades[1].date = Date(1)

(***************************************************************************)
(* One position at a time.                                                 *)
(***************************************************************************)
\* the entries are Buy, closing entry, Buy, closing entry, ...
Alternates(ledger) ==
    \A k \in DOMAIN ledger :
       IF k % 2 = 1 THEN ledger[k].type = "Buy" ELSE IsClosing(ledger[k])

\* the k-th Buy and the k-th closing entry are neighbours in the ledger, the
\* closing entry is not dated before the Buy and sells the shares bought
PairedInOrder(ledger) ==
    LET buy_trades == BuyRows(ledger)
        sell_trades == ClosingRows(ledger)
    IN  /\ Len(ledger) % 2 = 0
        /\ Len(buy_trades) = Len(sell_trades)
        /\ \A k \in DOMAIN buy_trades :
              /\ buy_trades[k] = ledger[2 * k - 1]
              /\ sell_trades[k] = ledger[2 * k]
              /\ sell_trades[k].date >= buy_trades[k].date
              /\ sell_trades[k].shares = buy_trades[k].shares

\* C17: at most one position is open in every state of the bar loop, so the
\* ledger alternates Buy, Sell or ForcedClose, Buy, ... from a Buy on: two
\* Buys never follow each other, a finished ledger has even length and as
\* many Buys as closing entries, and the i-th Buy is closed by the i-th
\* closing entry, dated no earlier and for the same number of shares.
C17_LedgerAlternates ==
    /\ pc = "bars" =>
         /\ Alternates(trades)
         /\ position > 0 <=> Len(trades) % 2 = 1
         /\ position > 0 => position = trades[Len(trades)].shares
    /\ pc = "stats" => (Alternates(trades) /\ PairedInOrder(trades))
    /\ \A c \in DOMAIN results :
         /\ Alternates(results[c].trades)
         /\ PairedInOrder(results[c].trades)

C17_Witness ==
    \E c \in DOMAIN results :
       /\ Len(results[c].trades) = 4
       /\ results[c].trades[2].type = "Sell"
       /\ results[c].trades[3].type = "Buy"
       /\ results[c].trades[3].shares # results[c].trades[1].shares

====
